---- MODULE Spec2Model ----
(***************************************************************************)
(* Model of the two FINN tutorial notebooks.                               *)
(*                                                                         *)
(*  Basics/0_how_to_work_with_onnx: a graph of Add/Abs/Round nodes is      *)
(*  built, executed against a reference function, scanned for a pair of    *)
(*  consecutive Add nodes, and the pair is replaced by one Sum node.       *)
(*  MLP/2_import_into_finn_and_verify: an exported model is tidied up by   *)
(*  six transformation passes, saved, executed on n_verification_inputs    *)
(*  inputs and compared with the Brevitas model.  The Tcl script stored    *)
(*  after the notebook stitches the hardware blocks into a block design    *)
(*  and filters stale subcore references out of component.xml.             *)
(* The variable notebook names the part a run executes: "basics", "mlp",   *)
(* "preprocess" (the input preparation of inference_with_finn_onnx applied *)
(* to one dataset vector), "stitch" or "filter" (the two parts of the Tcl  *)
(* script).                                                                *)
(*                                                                         *)
(* Every notebook cell that changes state is one action.  A cell that      *)
(* raises leaves the assignments made before the raise in place and        *)
(* records the exception in exc; the following cells can still be run.     *)
(* Tensor values are scalars on a grid of 1/Scale (all operators of the    *)
(* notebook are elementwise, so one element stands for the 4x4 tensor).    *)
(***************************************************************************)
EXTENDS Integers, Sequences, FiniteSets, TLC

VARIABLES
    notebook,        \* which part this run executes
    pc,              \* the next cell to run in notebook order
    graph,           \* the GraphProto bound to the name `graph`
    onnx_model,      \* the graph inside onnx_model (a copy of `graph`)
    input_dict,      \* tensor name -> value
    output,          \* result of the last successful sess.run (<<>> = unbound)
    ref_output,      \* result of expected_output (<<>> = unbound)
    add_nodes,       \* result of identify_adder_nodes
    found_pairs,     \* the pairs the scan cell assigned to substitute_pair
    substitute_pair, \* <<>> = unbound
    input_list,      \* inputs of the new node
    sum_output,      \* "" = unbound
    Sum_node,        \* NoNode = unbound
    onnx_model1,     \* the graph inside onnx_model1 (NoGraph = unbound)
    runs22,          \* how many times the insert/remove cell has been run
    printed,         \* what the last comparison cell printed
    exc,             \* exception raised by the last cell run ("none" if none)
    ok, nok,         \* counters of the verification loop
    loop_i,          \* index of the next verification input
    cmp_log,         \* <<finn_output, brevitas_output>> of every iteration
    verdict,         \* outcome of the final assertion cell
    model_for_sim,   \* the wrapped MLP model (NoModel in the basics notebook)
    verif_model_file,\* the model written to verif_model_filename
    tidy_log,        \* <<pass, changed>> of every tidy-up pass applied so far
    finn_input_dict, \* the input dictionary of the last execute_onnx call
    input_tensor_i,  \* the elements of one dataset vector input_tensor[i]
    finn_input_data, \* the elements of the array made from it for FINN
    bd_pc,           \* index of the next block-design command of the script
    bd,              \* the block design built so far
    ifile,           \* component.bak: its lines and whether the last line
                     \* ends with a newline
    rd,              \* number of lines read from ifile
    at_eof,          \* [eof $ifile]
    ofile,           \* the lines written to component.xml
    buf,             \* the buffered lines of the current fileSet block
    kill             \* 1 if the buffered block is to be dropped

vars == <<notebook, pc, graph, onnx_model, input_dict, output, ref_output,
          add_nodes, found_pairs, substitute_pair, input_list, sum_output,
          Sum_node, onnx_model1, runs22, printed, exc, ok, nok, loop_i,
          cmp_log, verdict, model_for_sim, verif_model_file, tidy_log,
          finn_input_dict, input_tensor_i, finn_input_data, bd_pc, bd, ifile,
          rd, at_eof, ofile, buf, kill>>

basicsVars == <<graph, onnx_model, input_dict, output, ref_output, add_nodes,
                found_pairs, substitute_pair, input_list, sum_output, Sum_node,
                onnx_model1, runs22, printed>>

mlpVars == <<ok, nok, loop_i, cmp_log, verdict, model_for_sim,
             verif_model_file, tidy_log, finn_input_dict, input_tensor_i,
             finn_input_data>>

tclVars == <<bd_pc, bd, ifile, rd, at_eof, ofile, buf, kill>>

-----------------------------------------------------------------------------
(* Bounds of the model *)

\* values are multiples of 1/Scale
Scale == 4
\* graph inputs range over -MaxVal..MaxVal (in units of 1/Scale)
MaxVal == 2
\* the generated graphs have at most MaxNodes nodes
MaxNodes == 3
\* the insert/remove cell is run at most MaxRuns times
MaxRuns == 2
\* dataset vectors have their ones at every m-th position, m up to MaxPeriod
MaxPeriod == 4
\* component.bak has at most MaxLines lines
MaxLines == 3
\* number of verification inputs (100 in the notebook)
n_verification_inputs == 3

-----------------------------------------------------------------------------
(* Nodes and graphs *)

make_node(op, ins, outs, nm) ==
    [name |-> nm, op_type |-> op, input |-> ins, output |-> outs]

NoNode == make_node("", <<>>, <<>>, "")

make_graph(nodes, ins, outs, vinfo) ==
    [node |-> nodes, input |-> ins, output |-> outs, value_info |-> vinfo]

NoGraph == make_graph(<<>>, <<>>, <<>>, <<>>)

Add1_node == make_node("Add", <<"in1", "in2">>, <<"sum1">>, "Add1")
Add2_node == make_node("Add", <<"sum1", "in3">>, <<"sum2">>, "Add2")
Add3_node == make_node("Add", <<"abs1", "abs1">>, <<"sum3">>, "Add3")
Abs_node == make_node("Abs", <<"sum2">>, <<"abs1">>, "Abs")
Round_node == make_node("Round", <<"sum3">>, <<"out1">>, "Round")

GraphInputs == <<"in1", "in2", "in3">>

TutorialGraph ==
    make_graph(<<Add1_node, Add2_node, Abs_node, Add3_node, Round_node>>,
               GraphInputs, <<"out1">>,
               <<"sum1", "sum2", "abs1", "sum3">>)

(* The other graphs the manipulation cells are run on: every topologically  *)
(* ordered graph of at most MaxNodes Add/Abs nodes with unique node names   *)
(* and unique output names.  Node k is named NodeName[k], writes TName[k]   *)
(* and reads graph inputs or outputs of earlier nodes; the last node's      *)
(* output is the graph output and every other node is read by a later one.  *)
TName == <<"t1", "t2", "t3", "t4", "t5">>
NodeName == <<"N1", "N2", "N3", "N4", "N5">>
FamilyInputs == {"in1", "in2"}

Avail(k) == FamilyInputs \cup {TName[j] : j \in 1..(k - 1)}

NodesAt(k) ==
    {make_node("Add", <<a, b>>, <<TName[k]>>, NodeName[k]) :
        a \in Avail(k), b \in Avail(k)}
    \cup {make_node("Abs", <<a>>, <<TName[k]>>, NodeName[k]) : a \in Avail(k)}

RECURSIVE NodeSeqs(_)
NodeSeqs(k) ==
    IF k = 0 THEN {<<>>}
    ELSE {Append(s, n) : s \in NodeSeqs(k - 1), n \in NodesAt(k)}

\* every node but the last is read by a later node
NoDeadNode(s) ==
    \A i \in 1..(Len(s) - 1) :
        \E j \in (i + 1)..Len(s) :
            \E p \in 1..Len(s[j].input) : s[j].input[p] = TName[i]

FamilyGraphs ==
    {make_graph(s, GraphInputs, <<TName[Len(s)]>>,
                [i \in 1..(Len(s) - 1) |-> TName[i]]) :
        s \in UNION {{q \in NodeSeqs(k) : NoDeadNode(q)} : k \in 1..MaxNodes}}

-----------------------------------------------------------------------------
(* Numeric semantics *)

Abs(v) == IF v < 0 THEN -v ELSE v

\* np.round / ONNX Round: to the nearest integer, ties to the even integer
Round(v) ==
    LET q == v \div Scale
        r == v % Scale
    IN  IF 2 * r < Scale THEN q * Scale
        ELSE IF 2 * r > Scale THEN (q + 1) * Scale
        ELSE IF q % 2 = 0 THEN q * Scale ELSE (q + 1) * Scale

RECURSIVE SumSeq(_)
SumSeq(s) == IF s = <<>> THEN 0 ELSE Head(s) + SumSeq(Tail(s))

\* variant: the absolute value is left out
expected_output_NoAbs(in1, in2, in3) ==
    LET sum1 == in1 + in2
        sum2 == sum1 + in3
        sum3 == sum2 + sum2
    IN  Round(sum3)

expected_output(in1, in2, in3) ==
    LET sum1 == in1 + in2
        sum2 == sum1 + in3
        abs1 == Abs(sum2)
        sum3 == abs1 + abs1
    IN  Round(sum3)

OpValue(n, env) ==
    LET ins == [i \in 1..Len(n.input) |-> env[n.input[i]]]
    IN  CASE n.op_type = "Add" -> ins[1] + ins[2]
          [] n.op_type = "Abs" -> Abs(ins[1])
          [] n.op_type = "Round" -> Round(ins[1])
          [] n.op_type = "Sum" -> SumSeq(ins)

Arity(n) ==
    CASE n.op_type = "Add" -> Len(n.input) = 2
      [] n.op_type = "Abs" -> Len(n.input) = 1
      [] n.op_type = "Round" -> Len(n.input) = 1
      [] n.op_type = "Sum" -> Len(n.input) >= 1
      [] OTHER -> FALSE

\* nodes are evaluated in graph order; a node whose input has no value yet,
\* or whose output already has one, makes the run fail
RECURSIVE EvalNodes(_, _)
EvalNodes(nodes, env) ==
    IF nodes = <<>> THEN [ok |-> TRUE, env |-> env]
    ELSE LET n == Head(nodes)
         IN  IF /\ Arity(n)
                /\ \A i \in 1..Len(n.input) : n.input[i] \in DOMAIN env
                /\ Len(n.output) = 1
                /\ n.output[1] \notin DOMAIN env
             THEN EvalNodes(Tail(nodes),
                            (n.output[1] :> OpValue(n, env)) @@ env)
             ELSE [ok |-> FALSE, env |-> env]

\* sess.run(None, feeds): the values of the graph outputs, or a failure
Execute(g, feeds) ==
    LET r == EvalNodes(g.node, feeds)
    IN  IF /\ r.ok
           /\ \A i \in 1..Len(g.input) : g.input[i] \in DOMAIN feeds
           /\ \A i \in 1..Len(g.output) : g.output[i] \in DOMAIN r.env
        THEN [ok |-> TRUE,
              out |-> [i \in 1..Len(g.output) |-> r.env[g.output[i]]]]
        ELSE [ok |-> FALSE, out |-> <<>>]

Values == (-MaxVal)..MaxVal
AllFeeds == [{"in1", "in2", "in3"} -> Values]
FamilyFeeds == {[t \in {"in1", "in2", "in3"} |-> MaxVal]}

-----------------------------------------------------------------------------
(* ModelWrapper queries *)

finn_model == onnx_model

SeqToSet(s) == {s[i] : i \in 1..Len(s)}

\* variant: only the first input port of a node is looked at
find_consumers_FirstPort(model, tensor) ==
    SelectSeq(model.node, LAMBDA n : n.input # <<>> /\ n.input[1] = tensor)

find_consumers(model, tensor) ==
    SelectSeq(model.node, LAMBDA n : tensor \in SeqToSet(n.input))

RECURSIVE ConsumersOfAll(_, _)
ConsumersOfAll(model, outs) ==
    IF outs = <<>> THEN <<>>
    ELSE find_consumers(model, Head(outs)) \o ConsumersOfAll(model, Tail(outs))

find_direct_successors(model, node) == ConsumersOfAll(model, node.output)

\* the first node that lists tensor among its outputs, <<>> if there is none
find_producer(model, tensor) ==
    LET ps == SelectSeq(model.node, LAMBDA n : tensor \in SeqToSet(n.output))
    IN  IF ps = <<>> THEN <<>> ELSE <<Head(ps)>>

RECURSIVE ProducersOfAll(_, _)
ProducersOfAll(model, ins) ==
    IF ins = <<>> THEN <<>>
    ELSE find_producer(model, Head(ins)) \o ProducersOfAll(model, Tail(ins))

\* the producers of the node's inputs, in input-port order
find_direct_predecessors(model, node) == ProducersOfAll(model, node.input)

-----------------------------------------------------------------------------
(* Helper functions of the notebook *)

\* name -> 0-based index; a later node overwrites an earlier one of that name
\* variant: positions are counted from 1
get_node_id_OneBased(model) ==
    [nm \in {model.node[i].name : i \in 1..Len(model.node)} |->
        CHOOSE i \in 1..Len(model.node) :
            /\ model.node[i].name = nm
            /\ \A j \in 1..Len(model.node) :
                   model.node[j].name = nm => j <= i]

get_node_id(model) ==
    [nm \in {model.node[i].name : i \in 1..Len(model.node)} |->
        (CHOOSE i \in 1..Len(model.node) :
            /\ model.node[i].name = nm
            /\ \A j \in 1..Len(model.node) :
                   model.node[j].name = nm => j <= i) - 1]

\* variant: the op_type test is left out
identify_adder_nodes_AnyOp(model) == model.node

identify_adder_nodes(model) ==
    SelectSeq(model.node, LAMBDA n : n.op_type = "Add")

RECURSIVE PairsOver(_, _)
PairsOver(node, successor_list) ==
    IF successor_list = <<>> THEN <<>>
    ELSE LET successor == Head(successor_list)
         IN  (IF successor.op_type = "Add" THEN <<(<<node, successor>>)>>
              ELSE <<>>)
             \o PairsOver(node, Tail(successor_list))

\* variant: every successor makes a pair, whatever its op_type
adder_pair_AnyOp(model, node) ==
    LET successor_list == find_direct_successors(model, node)
    IN  [i \in 1..Len(successor_list) |-> <<node, successor_list[i]>>]

adder_pair(model, node) == PairsOver(node, find_direct_successors(model, node))

\* the scan cell: every pair found is assigned to substitute_pair in turn
RECURSIVE ScanPairs(_, _)
ScanPairs(model, nodes) ==
    IF nodes = <<>> THEN <<>>
    ELSE adder_pair(model, Head(nodes)) \o ScanPairs(model, Tail(nodes))

\* variant: the second node keeps the connecting tensor as an input
\* variant: the output of the first node of the pair is taken
SumOutput_FirstNode(pair) == pair[1].output[1]

\* sum_output = substitute_pair[1].output[0]
SumOutput(pair) == pair[2].output[1]

\* variant: value_info entries of tensors without a producer are pruned
WithNodes_PrunesValueInfo(g, nodes) ==
    [g EXCEPT !.node = nodes,
              !.value_info =
                  SelectSeq(@, LAMBDA t :
                      \E i \in 1..Len(nodes) : t \in SeqToSet(nodes[i].output))]

\* graph.node.insert and graph.node.remove change the node list of the graph
\* in place and none of its other fields
WithNodes(g, nodes) == [g EXCEPT !.node = nodes]

\* variant: the loop keeps the first pair it finds
LastAssigned_First(pairs, old) ==
    IF pairs = <<>> THEN old ELSE pairs[1]

\* substitute_pair after the loop has assigned every found pair to it in turn
LastAssigned(pairs, old) ==
    IF pairs = <<>> THEN old ELSE pairs[Len(pairs)]

\* variant: the inputs of the second node come first
BuildInputList_SecondFirst(pair) ==
    SelectSeq(pair[2].input, LAMBDA t : t # pair[1].output[1])
    \o SelectSeq(pair[1].input, LAMBDA t : t # pair[2].output[1])

\* variant: an input that both nodes read is dropped
BuildInputList_SharedDropped(pair) ==
    SelectSeq(pair[1].input, LAMBDA t : t # pair[2].output[1]
                                        /\ t \notin SeqToSet(pair[2].input))
    \o SelectSeq(pair[2].input, LAMBDA t : t # pair[1].output[1]
                                          /\ t \notin SeqToSet(pair[1].input))

BuildInputList_KeepConnecting(pair) ==
    SelectSeq(pair[1].input, LAMBDA t : t # pair[2].output[1]) \o pair[2].input

BuildInputList(pair) ==
    SelectSeq(pair[1].input, LAMBDA t : t # pair[2].output[1])
    \o SelectSeq(pair[2].input, LAMBDA t : t # pair[1].output[1])

\* list.insert(i, x) with a 0-based index
Insert(s, i, x) ==
    IF i >= Len(s) THEN Append(s, x)
    ELSE SubSeq(s, 1, i) \o <<x>> \o SubSeq(s, i + 1, Len(s))

\* variant: the element after the first match goes
Remove_OffByOne(s, x) ==
    LET i == CHOOSE k \in 1..Len(s) :
                 s[k] = x /\ \A j \in 1..(k - 1) : s[j] # x
        d == IF i < Len(s) THEN i + 1 ELSE i
    IN  SubSeq(s, 1, d - 1) \o SubSeq(s, d + 1, Len(s))

\* list.remove(x): the first element equal to x goes
Remove(s, x) ==
    LET i == CHOOSE k \in 1..Len(s) :
                 s[k] = x /\ \A j \in 1..(k - 1) : s[j] # x
    IN  SubSeq(s, 1, i - 1) \o SubSeq(s, i + 1, Len(s))

\* for node in pair: nodes.remove(node), stopping at the first ValueError
RECURSIVE RemoveAll(_, _)
RemoveAll(nodes, pair) ==
    IF pair = <<>> THEN [nodes |-> nodes, exc |-> "none"]
    ELSE IF Head(pair) \notin SeqToSet(nodes)
         THEN [nodes |-> nodes, exc |-> "ValueError"]
         ELSE RemoveAll(Remove(nodes, Head(pair)), Tail(pair))

-----------------------------------------------------------------------------
(* The MLP model and its execution *)

\* a ModelWrapper, reduced to what the notebook reads from it: the names and
\* registered shapes of graph.input[0] and graph.output[0]; rev counts the
\* transformation passes that changed the model (its nodes, annotations and
\* initializers are not modelled one by one)
NoModel ==
    [in_name |-> "", out_name |-> "", in_shape |-> <<>>, out_shape |-> <<>>,
     rev |-> 0]

\* model_for_sim = ModelWrapper(ready_model_filename), as the inspection cell
\* printed it
ReadyModel ==
    [in_name |-> "global_in", out_name |-> "global_out",
     in_shape |-> <<1, 600>>, out_shape |-> <<1, 1>>, rev |-> 0]

\* variant: datatypes are inferred before the tensors are renamed
TidyPasses_Swapped ==
    <<"InferShapes", "FoldConstants", "GiveUniqueNodeNames",
      "InferDataTypes", "GiveReadableTensorNames", "RemoveStaticGraphInputs">>

\* the passes of the tidy-up cell, in the order of its transform calls
TidyPasses ==
    <<"InferShapes", "FoldConstants", "GiveUniqueNodeNames",
      "GiveReadableTensorNames", "InferDataTypes", "RemoveStaticGraphInputs">>

\* model.transform(pass): the pass either changes the model or leaves it as
\* it is; names and registered shapes of the graph input and output stay
transform(model, pass, changed) ==
    [model EXCEPT !.rev = IF changed THEN @ + 1 ELSE @]

\* variant: the model is saved before the last pass
TidyFinished_SkipsLast(log) == Len(log) = Len(TidyPasses) - 1

\* the cell reaches model_for_sim.save after one transform call per pass
TidyFinished(log) == Len(log) = Len(TidyPasses)

\* input_tensor[i].reshape((1, 593)); an array stands for its shape
CurrentInpShape == <<1, 593>>

\* the pad_width argument of np.pad
PadWidth == <<<<0, 0>>, <<0, 7>>>>

RECURSIVE Size(_)
\* number of elements of an array of the given shape
Size(shape) == IF shape = <<>> THEN 1 ELSE Head(shape) * Size(Tail(shape))

\* variant: no padding
pad_Unpadded(shape, pad_width) == shape

\* np.pad(array, pad_width)
pad(shape, pad_width) ==
    [i \in 1..Len(shape) |-> pad_width[i][1] + shape[i] + pad_width[i][2]]

\* dataset vectors: 593 elements in {0, 1}; all zeros, and ones at the
\* positions i with i % m = r
InputVectors ==
    {[i \in 1..CurrentInpShape[2] |-> 0]} \cup
    {[i \in 1..CurrentInpShape[2] |-> IF i % m = r THEN 1 ELSE 0] :
        m \in 1..MaxPeriod, r \in 0..(MaxPeriod - 1)}

\* the elements of np.pad(array, pad_width) for an array of one row:
\* zeros before and after the elements of the row
pad_data(data, pad_width) ==
    [i \in 1..(pad_width[2][1] + Len(data) + pad_width[2][2]) |->
        IF i <= pad_width[2][1] \/ i > pad_width[2][1] + Len(data)
        THEN 0 ELSE data[i - pad_width[2][1]]]

\* 2*current_inp-1, element by element
rescale(data) == [i \in 1..Len(data) |-> 2 * data[i] - 1]

\* variant: re-scaled first, padded afterwards
preprocess_ScaleFirst(data) == pad_data(rescale(data), PadWidth)

\* add padding and re-scale to bipolar
preprocess(data) == rescale(pad_data(data, PadWidth))

\* array.reshape(newshape): raises ValueError unless the sizes agree
reshape(shape, newshape) ==
    IF Size(shape) = Size(newshape)
    THEN [exc |-> "none", shape |-> newshape]
    ELSE [exc |-> "ValueError", shape |-> shape]

\* oxe.execute_onnx(model, input_dict): every graph input must be bound to a
\* value of its registered shape; result is the value the model computes for
\* the graph output; the model is handed back as it was
execute_onnx(model, in_dict, result) ==
    IF /\ model.in_name \in DOMAIN in_dict
       /\ in_dict[model.in_name] = model.in_shape
    THEN [exc |-> "none", model |-> model,
          output_dict |-> [t \in {model.out_name} |-> result]]
    ELSE [exc |-> "ShapeMismatch", model |-> model, output_dict |-> <<>>]

\* variant: registers the shape of the raw input on the model
inference_with_finn_onnx_SetsShape(model, current_inp, result) ==
    LET m == [model EXCEPT !.in_shape = current_inp]
        r == reshape(pad(current_inp, PadWidth), model.in_shape)
        in_dict == [t \in {model.in_name} |-> r.shape]
    IN  [exc |-> r.exc, model |-> m, input_dict |-> in_dict,
         finn_output |-> result]

\* def inference_with_finn_onnx(current_inp), with model_for_sim passed in
\* and handed back; on an exception no output is returned
inference_with_finn_onnx(model, current_inp, result) ==
    LET finnonnx_in_tensor_name == model.in_name
        finnonnx_model_in_shape == model.in_shape
        finnonnx_out_tensor_name == model.out_name
        r == reshape(pad(current_inp, PadWidth), finnonnx_model_in_shape)
        in_dict == [t \in {finnonnx_in_tensor_name} |-> r.shape]
        e == execute_onnx(model, in_dict, result)
    IN  IF r.exc # "none"
        THEN [exc |-> r.exc, model |-> model, input_dict |-> <<>>,
              finn_output |-> 0]
        ELSE IF e.exc # "none"
        THEN [exc |-> e.exc, model |-> e.model, input_dict |-> in_dict,
              finn_output |-> 0]
        ELSE [exc |-> "none", model |-> e.model, input_dict |-> in_dict,
              finn_output |-> e.output_dict[finnonnx_out_tensor_name]]

-----------------------------------------------------------------------------
(* The block design of the Tcl script *)

\* a block design: its cells, its external ports and interface ports, the
\* nets from a port to a pin <<port, cell, pin>>, the interface nets from
\* pin to pin <<cell, pin, cell, pin>> and from an external interface port
\* to a pin <<port, cell, pin>>
EmptyDesign ==
    [cells |-> {}, ports |-> {}, intf_ports |-> {}, nets |-> {},
     intf_nets |-> {}, ext_intf_nets |-> {}]

\* the commands of the script that act at the top level of the design, in
\* script order: <<command, arguments>>; the commands that fill the inside of
\* a hierarchical cell are left out
StitchScript ==
    <<<<"create_bd_cell", "StreamingFIFO_rtl_0", "", "", "">>,
      <<"create_bd_cell", "MVAU_hls_0", "", "", "">>,
      <<"create_bd_cell", "StreamingFIFO_rtl_1", "", "", "">>,
      <<"create_bd_cell", "StreamingDataWidthConverter_rtl_0", "", "", "">>,
      <<"create_bd_cell", "StreamingFIFO_rtl_2", "", "", "">>,
      <<"create_bd_cell", "MVAU_hls_1", "", "", "">>,
      <<"create_bd_cell", "StreamingFIFO_rtl_3", "", "", "">>,
      <<"create_bd_cell", "StreamingDataWidthConverter_rtl_1", "", "", "">>,
      <<"create_bd_cell", "StreamingFIFO_rtl_4", "", "", "">>,
      <<"create_bd_cell", "MVAU_hls_2", "", "", "">>,
      <<"create_bd_cell", "StreamingFIFO_rtl_5", "", "", "">>,
      <<"create_bd_cell", "MVAU_hls_3", "", "", "">>,
      <<"create_bd_cell", "StreamingFIFO_rtl_6", "", "", "">>,
      <<"make_bd_pins_external", "StreamingFIFO_rtl_0", "ap_clk", "", "">>,
      <<"rename_bd_port", "ap_clk_0", "ap_clk", "", "">>,
      <<"make_bd_pins_external", "StreamingFIFO_rtl_0", "ap_rst_n", "", "">>,
      <<"rename_bd_port", "ap_rst_n_0", "ap_rst_n", "", "">>,
      <<"connect_bd_net", "ap_rst_n", "MVAU_hls_0", "ap_rst_n", "">>,
      <<"connect_bd_net", "ap_clk", "MVAU_hls_0", "ap_clk", "">>,
      <<"connect_bd_intf_net", "StreamingFIFO_rtl_0", "out_V", "MVAU_hls_0", "in0_V">>,
      <<"connect_bd_net", "ap_rst_n", "StreamingFIFO_rtl_1", "ap_rst_n", "">>,
      <<"connect_bd_net", "ap_clk", "StreamingFIFO_rtl_1", "ap_clk", "">>,
      <<"connect_bd_intf_net", "MVAU_hls_0", "out_V", "StreamingFIFO_rtl_1", "in0_V">>,
      <<"connect_bd_net", "ap_rst_n", "StreamingDataWidthConverter_rtl_0", "ap_rst_n", "">>,
      <<"connect_bd_net", "ap_clk", "StreamingDataWidthConverter_rtl_0", "ap_clk", "">>,
      <<"connect_bd_intf_net", "StreamingFIFO_rtl_1", "out_V", "StreamingDataWidthConverter_rtl_0", "in0_V">>,
      <<"connect_bd_net", "ap_rst_n", "StreamingFIFO_rtl_2", "ap_rst_n", "">>,
      <<"connect_bd_net", "ap_clk", "StreamingFIFO_rtl_2", "ap_clk", "">>,
      <<"connect_bd_intf_net", "StreamingDataWidthConverter_rtl_0", "out_V", "StreamingFIFO_rtl_2", "in0_V">>,
      <<"connect_bd_net", "ap_rst_n", "MVAU_hls_1", "ap_rst_n", "">>,
      <<"connect_bd_net", "ap_clk", "MVAU_hls_1", "ap_clk", "">>,
      <<"connect_bd_intf_net", "StreamingFIFO_rtl_2", "out_V", "MVAU_hls_1", "in0_V">>,
      <<"connect_bd_net", "ap_rst_n", "StreamingFIFO_rtl_3", "ap_rst_n", "">>,
      <<"connect_bd_net", "ap_clk", "StreamingFIFO_rtl_3", "ap_clk", "">>,
      <<"connect_bd_intf_net", "MVAU_hls_1", "out_V", "StreamingFIFO_rtl_3", "in0_V">>,
      <<"connect_bd_net", "ap_rst_n", "StreamingDataWidthConverter_rtl_1", "ap_rst_n", "">>,
      <<"connect_bd_net", "ap_clk", "StreamingDataWidthConverter_rtl_1", "ap_clk", "">>,
      <<"connect_bd_intf_net", "StreamingFIFO_rtl_3", "out_V", "StreamingDataWidthConverter_rtl_1", "in0_V">>,
      <<"connect_bd_net", "ap_rst_n", "StreamingFIFO_rtl_4", "ap_rst_n", "">>,
      <<"connect_bd_net", "ap_clk", "StreamingFIFO_rtl_4", "ap_clk", "">>,
      <<"connect_bd_intf_net", "StreamingDataWidthConverter_rtl_1", "out_V", "StreamingFIFO_rtl_4", "in0_V">>,
      <<"connect_bd_net", "ap_rst_n", "MVAU_hls_2", "ap_rst_n", "">>,
      <<"connect_bd_net", "ap_clk", "MVAU_hls_2", "ap_clk", "">>,
      <<"connect_bd_intf_net", "StreamingFIFO_rtl_4", "out_V", "MVAU_hls_2", "in0_V">>,
      <<"connect_bd_net", "ap_rst_n", "StreamingFIFO_rtl_5", "ap_rst_n", "">>,
      <<"connect_bd_net", "ap_clk", "StreamingFIFO_rtl_5", "ap_clk", "">>,
      <<"connect_bd_intf_net", "MVAU_hls_2", "out_V", "StreamingFIFO_rtl_5", "in0_V">>,
      <<"connect_bd_net", "ap_rst_n", "MVAU_hls_3", "ap_rst_n", "">>,
      <<"connect_bd_net", "ap_clk", "MVAU_hls_3", "ap_clk", "">>,
      <<"connect_bd_intf_net", "StreamingFIFO_rtl_5", "out_V", "MVAU_hls_3", "in0_V">>,
      <<"connect_bd_net", "ap_rst_n", "StreamingFIFO_rtl_6", "ap_rst_n", "">>,
      <<"connect_bd_net", "ap_clk", "StreamingFIFO_rtl_6", "ap_clk", "">>,
      <<"connect_bd_intf_net", "MVAU_hls_3", "out_V", "StreamingFIFO_rtl_6", "in0_V">>,
      <<"make_bd_intf_pins_external", "StreamingFIFO_rtl_0", "in0_V", "", "">>,
      <<"rename_bd_intf_port", "in0_V_0", "s_axis_0", "", "">>,
      <<"make_bd_intf_pins_external", "StreamingFIFO_rtl_6", "out_V", "", "">>,
      <<"rename_bd_intf_port", "out_V_0", "m_axis_0", "", "">>>>

\* the name make_bd_pins_external and make_bd_intf_pins_external give to
\* the port made for a pin
ExternalName(pin) ==
    CASE pin = "ap_clk" -> "ap_clk_0"
      [] pin = "ap_rst_n" -> "ap_rst_n_0"
      [] pin = "in0_V" -> "in0_V_0"
      [] pin = "out_V" -> "out_V_0"
      [] OTHER -> pin

\* variant: the two interface pins are taken in the opposite order
connect_bd_intf_net_Swapped(d, a, pa, b, pb) ==
    [d EXCEPT !.intf_nets = @ \cup {<<b, pb, a, pa>>}]

\* connect_bd_intf_net [get_bd_intf_pins a/pa] [get_bd_intf_pins b/pb]
connect_bd_intf_net(d, a, pa, b, pb) ==
    [d EXCEPT !.intf_nets = @ \cup {<<a, pa, b, pb>>}]

\* set_property name new [get_bd_ports old]
RenamePort(d, old, new) ==
    [d EXCEPT !.ports = (@ \ {old}) \cup {new},
              !.nets = {<<IF n[1] = old THEN new ELSE n[1], n[2], n[3]>> :
                           n \in @}]

\* set_property name new [get_bd_intf_ports old]
RenameIntfPort(d, old, new) ==
    [d EXCEPT !.intf_ports = (@ \ {old}) \cup {new},
              !.ext_intf_nets =
                  {<<IF n[1] = old THEN new ELSE n[1], n[2], n[3]>> : n \in @}]

\* the design after one command
ExecCommand(d, cmd) ==
    CASE cmd[1] = "create_bd_cell" ->
            [d EXCEPT !.cells = @ \cup {cmd[2]}]
      [] cmd[1] = "make_bd_pins_external" ->
            [d EXCEPT !.ports = @ \cup {ExternalName(cmd[3])},
                      !.nets = @ \cup {<<ExternalName(cmd[3]), cmd[2], cmd[3]>>}]
      [] cmd[1] = "make_bd_intf_pins_external" ->
            [d EXCEPT !.intf_ports = @ \cup {ExternalName(cmd[3])},
                      !.ext_intf_nets =
                          @ \cup {<<ExternalName(cmd[3]), cmd[2], cmd[3]>>}]
      [] cmd[1] = "rename_bd_port" -> RenamePort(d, cmd[2], cmd[3])
      [] cmd[1] = "rename_bd_intf_port" -> RenameIntfPort(d, cmd[2], cmd[3])
      [] cmd[1] = "connect_bd_net" ->
            [d EXCEPT !.nets = @ \cup {<<cmd[2], cmd[3], cmd[4]>>}]
      [] cmd[1] = "connect_bd_intf_net" ->
            connect_bd_intf_net(d, cmd[2], cmd[3], cmd[4], cmd[5])
      [] OTHER -> d

-----------------------------------------------------------------------------
(* The stale-reference filter of the Tcl script *)

\* the three patterns the loop matches lines against; a line is modelled by
\* the set of patterns it contains
fileSetOpen == "<spirit:fileSet>"
fileSetClose == "</spirit:fileSet>"
subCoreRef == "<xilinx:subCoreRef>"
Patterns == {fileSetOpen, fileSetClose, subCoreRef}

\* [string match {*pattern*} $line]
string_match(pattern, line) == pattern \in line.text

RECURSIVE TextSeqs(_)
\* the sequences of n line texts
TextSeqs(n) ==
    IF n = 0 THEN {<<>>}
    ELSE {Append(q, t) : q \in TextSeqs(n - 1), t \in SUBSET Patterns}

\* a file of at most MaxLines lines; a line is its number and its text
Files ==
    {[lines |-> [i \in 1..Len(q) |-> [no |-> i, text |-> q[i]]], ends_nl |-> e] :
        q \in UNION {TextSeqs(n) : n \in 0..MaxLines}, e \in BOOLEAN}

\* what gets stores in line when no line is left: the empty string
EmptyLine(f) == [no |-> Len(f.lines) + 1, text |-> {}]

\* gets $ifile line, followed by [eof $ifile]: the end of file is noticed by
\* the read that runs into it, which is the read of a last line without a
\* newline, or else the read after the last line
gets(f, n) ==
    IF n < Len(f.lines)
    THEN [line |-> f.lines[n + 1], rd |-> n + 1,
          eof |-> (n + 1 = Len(f.lines) /\ ~f.ends_nl)]
    ELSE [line |-> EmptyLine(f), rd |-> n, eof |-> TRUE]

\* the body of the while loop for one line
FilterLine(line, st) ==
    IF string_match(fileSetOpen, line)
    THEN [ofile |-> st.ofile \o st.buf, buf |-> <<line>>, kill |-> st.kill]
    ELSE IF Len(st.buf) > 0
    THEN IF string_match(fileSetClose, line)
         THEN [ofile |-> IF st.kill = 0 THEN st.ofile \o Append(st.buf, line)
                         ELSE st.ofile,
               buf |-> <<>>, kill |-> 0]
         ELSE IF string_match(subCoreRef, line)
         THEN [ofile |-> st.ofile, buf |-> Append(st.buf, line), kill |-> 1]
         ELSE [ofile |-> st.ofile, buf |-> Append(st.buf, line),
               kill |-> st.kill]
    ELSE [ofile |-> Append(st.ofile, line), buf |-> st.buf, kill |-> st.kill]

-----------------------------------------------------------------------------
(* Initial values of the parts a run does not execute *)

BasicsUnused ==
    /\ graph = NoGraph /\ onnx_model = NoGraph
    /\ input_dict = <<>> /\ output = <<>> /\ ref_output = <<>>
    /\ add_nodes = <<>> /\ found_pairs = <<>> /\ substitute_pair = <<>>
    /\ input_list = <<>> /\ sum_output = "" /\ Sum_node = NoNode
    /\ onnx_model1 = NoGraph /\ runs22 = 0 /\ printed = "nothing"

MlpUnused ==
    /\ ok = 0 /\ nok = 0 /\ loop_i = 0 /\ cmp_log = <<>> /\ verdict = "none"
    /\ model_for_sim = NoModel /\ verif_model_file = NoModel
    /\ tidy_log = <<>> /\ finn_input_dict = <<>>
    /\ input_tensor_i = <<>> /\ finn_input_data = <<>>

StitchUnused == bd_pc = 0 /\ bd = EmptyDesign

FilterUnused ==
    /\ ifile = [lines |-> <<>>, ends_nl |-> FALSE]
    /\ rd = 0 /\ at_eof = FALSE /\ ofile = <<>> /\ buf = <<>> /\ kill = 0

-----------------------------------------------------------------------------
(* Initial states *)

InitBasics ==
    /\ notebook = "basics"
    /\ pc = "run_model"
    /\ \/ graph = TutorialGraph /\ input_dict \in AllFeeds
       \/ graph \in FamilyGraphs /\ input_dict \in FamilyFeeds
    /\ onnx_model = graph
    /\ output = <<>>
    /\ ref_output = <<>>
    /\ add_nodes = <<>>
    /\ found_pairs = <<>>
    /\ substitute_pair = <<>>
    /\ input_list = <<>>
    /\ sum_output = ""
    /\ Sum_node = NoNode
    /\ onnx_model1 = NoGraph
    /\ runs22 = 0
    /\ printed = "nothing"
    /\ exc = "none"
    /\ ok = 0 /\ nok = 0 /\ loop_i = 0 /\ cmp_log = <<>> /\ verdict = "none"
    /\ model_for_sim = NoModel /\ verif_model_file = NoModel
    /\ tidy_log = <<>> /\ finn_input_dict = <<>>
    /\ input_tensor_i = <<>> /\ finn_input_data = <<>>
    /\ StitchUnused /\ FilterUnused

\* the MLP notebook after its first cell has loaded the model
InitMLP ==
    /\ notebook = "mlp"
    /\ pc = "tidy"
    /\ graph = TutorialGraph
    /\ input_dict = [t \in {"in1", "in2", "in3"} |-> 0]
    /\ onnx_model = graph
    /\ output = <<>>
    /\ ref_output = <<>>
    /\ add_nodes = <<>>
    /\ found_pairs = <<>>
    /\ substitute_pair = <<>>
    /\ input_list = <<>>
    /\ sum_output = ""
    /\ Sum_node = NoNode
    /\ onnx_model1 = NoGraph
    /\ runs22 = 0
    /\ printed = "nothing"
    /\ exc = "none"
    /\ ok = 0 /\ nok = 0 /\ loop_i = 0 /\ cmp_log = <<>> /\ verdict = "none"
    /\ model_for_sim = ReadyModel /\ verif_model_file = NoModel
    /\ tidy_log = <<>> /\ finn_input_dict = <<>>
    /\ input_tensor_i = <<>> /\ finn_input_data = <<>>
    /\ StitchUnused /\ FilterUnused

\* inference_with_finn_onnx about to prepare one dataset vector
InitPreprocess ==
    /\ notebook = "preprocess" /\ pc = "preprocess" /\ exc = "none"
    /\ BasicsUnused
    /\ ok = 0 /\ nok = 0 /\ loop_i = 0 /\ cmp_log = <<>> /\ verdict = "none"
    /\ model_for_sim = ReadyModel /\ verif_model_file = NoModel
    /\ tidy_log = <<>> /\ finn_input_dict = <<>>
    /\ input_tensor_i \in InputVectors /\ finn_input_data = <<>>
    /\ StitchUnused /\ FilterUnused

\* the script after create_bd_design
InitStitch ==
    /\ notebook = "stitch" /\ pc = "stitch" /\ exc = "none"
    /\ BasicsUnused /\ MlpUnused /\ FilterUnused
    /\ bd_pc = 1 /\ bd = EmptyDesign

\* the script after: set buf [list]; set kill 0
InitFilter ==
    /\ notebook = "filter" /\ pc = "filter" /\ exc = "none"
    /\ BasicsUnused /\ MlpUnused /\ StitchUnused
    /\ ifile \in Files
    /\ rd = 0 /\ at_eof = FALSE /\ ofile = <<>> /\ buf = <<>> /\ kill = 0

Init == InitBasics \/ InitMLP \/ InitPreprocess \/ InitStitch \/ InitFilter

-----------------------------------------------------------------------------
(* Cells of the basics notebook *)

\* output = sess.run(None, input_dict) on onnx_model
RunModel ==
    /\ notebook = "basics" /\ pc = "run_model"
    /\ LET r == Execute(onnx_model, input_dict)
       IN  IF r.ok THEN output' = r.out /\ exc' = "none"
           ELSE output' = output /\ exc' = "RuntimeError"
    /\ pc' = "compare"
    /\ UNCHANGED <<notebook, graph, onnx_model, input_dict, ref_output,
                   add_nodes, found_pairs, substitute_pair, input_list,
                   sum_output, Sum_node, onnx_model1, runs22, printed>>
    /\ UNCHANGED mlpVars
    /\ UNCHANGED tclVars

\* ref_output = expected_output(...); compare output[0] with it
CompareWith(nextpc) ==
    /\ ref_output' = <<expected_output(input_dict["in1"], input_dict["in2"],
                                       input_dict["in3"])>>
    /\ IF output = <<>> THEN printed' = printed /\ exc' = "NameError"
       ELSE IF output[1] = ref_output'[1]
            THEN printed' = "The results are the same!" /\ exc' = "none"
            ELSE printed' = printed /\ exc' = "Exception"
    /\ pc' = nextpc
    /\ UNCHANGED <<notebook, graph, onnx_model, input_dict, output, add_nodes,
                   found_pairs, substitute_pair, input_list, sum_output,
                   Sum_node, onnx_model1, runs22>>
    /\ UNCHANGED mlpVars
    /\ UNCHANGED tclVars

Compare ==
    /\ notebook = "basics" /\ pc = "compare"
    /\ CompareWith("identify")

\* finn_model = ModelWrapper(onnx_model); add_nodes = identify_adder_nodes(finn_model)
IdentifyAdders ==
    /\ notebook = "basics" /\ pc = "identify"
    /\ add_nodes' = identify_adder_nodes(finn_model)
    /\ exc' = "none"
    /\ pc' = "scan"
    /\ UNCHANGED <<notebook, graph, onnx_model, input_dict, output, ref_output,
                   found_pairs, substitute_pair, input_list, sum_output,
                   Sum_node, onnx_model1, runs22, printed>>
    /\ UNCHANGED mlpVars
    /\ UNCHANGED tclVars

\* for node in add_nodes: for every pair of adder_pair(finn_model, node):
\*     substitute_pair = pair
ScanCell ==
    /\ notebook = "basics" /\ pc = "scan"
    /\ found_pairs' = ScanPairs(finn_model, add_nodes)
    /\ substitute_pair' = LastAssigned(found_pairs', substitute_pair)
    /\ exc' = "none"
    /\ pc' = "input_list"
    /\ UNCHANGED <<notebook, graph, onnx_model, input_dict, output, ref_output,
                   add_nodes, input_list, sum_output, Sum_node, onnx_model1,
                   runs22, printed>>
    /\ UNCHANGED mlpVars
    /\ UNCHANGED tclVars

\* input_list = []; then the inputs of both nodes minus the connecting tensor
InputListCell ==
    /\ notebook = "basics" /\ pc = "input_list"
    /\ IF substitute_pair = <<>>
       THEN input_list' = <<>> /\ exc' = "NameError"
       ELSE input_list' = BuildInputList(substitute_pair) /\ exc' = "none"
    /\ pc' = "sum_output"
    /\ UNCHANGED <<notebook, graph, onnx_model, input_dict, output, ref_output,
                   add_nodes, found_pairs, substitute_pair, sum_output,
                   Sum_node, onnx_model1, runs22, printed>>
    /\ UNCHANGED mlpVars
    /\ UNCHANGED tclVars

\* sum_output = substitute_pair[1].output[0]
SumOutputCell ==
    /\ notebook = "basics" /\ pc = "sum_output"
    /\ IF substitute_pair = <<>>
       THEN sum_output' = sum_output /\ exc' = "NameError"
       ELSE sum_output' = SumOutput(substitute_pair) /\ exc' = "none"
    /\ pc' = "sum_node"
    /\ UNCHANGED <<notebook, graph, onnx_model, input_dict, output, ref_output,
                   add_nodes, found_pairs, substitute_pair, input_list,
                   Sum_node, onnx_model1, runs22, printed>>
    /\ UNCHANGED mlpVars
    /\ UNCHANGED tclVars

\* Sum_node = make_node('Sum', inputs=input_list, outputs=[sum_output], name="Sum")
SumNodeCell ==
    /\ notebook = "basics" /\ pc = "sum_node"
    /\ IF sum_output = ""
       THEN Sum_node' = Sum_node /\ exc' = "NameError"
       ELSE /\ Sum_node' = make_node("Sum", input_list, <<sum_output>>, "Sum")
            /\ exc' = "none"
    /\ pc' = "insert_remove"
    /\ UNCHANGED <<notebook, graph, onnx_model, input_dict, output, ref_output,
                   add_nodes, found_pairs, substitute_pair, input_list,
                   sum_output, onnx_model1, runs22, printed>>
    /\ UNCHANGED mlpVars
    /\ UNCHANGED tclVars

\* node_ids = get_node_id(finn_model); node_ind = node_ids[substitute_pair[0].name]
\* graph.node.insert(node_ind, Sum_node)
\* for node in substitute_pair: graph.node.remove(node)
InsertRemoveEffect(g) ==
    IF substitute_pair = <<>> \/ Sum_node = NoNode
    THEN [nodes |-> g.node, exc |-> "NameError"]
    ELSE LET node_ids == get_node_id(finn_model)
             node_ind == node_ids[substitute_pair[1].name]
         IN  RemoveAll(Insert(g.node, node_ind, Sum_node), substitute_pair)

InsertRemove ==
    /\ notebook = "basics"
    /\ pc \in {"insert_remove", "make_model1", "run_model1", "compare1", "end"}
    /\ runs22 < MaxRuns
    /\ pc = "insert_remove" \/ runs22 >= 1
    /\ LET r == InsertRemoveEffect(graph)
       IN  /\ graph' = WithNodes(graph, r.nodes)
           /\ exc' = r.exc
    /\ runs22' = runs22 + 1
    /\ pc' = IF pc = "insert_remove" THEN "make_model1" ELSE pc
    /\ UNCHANGED <<notebook, onnx_model, input_dict, output, ref_output,
                   add_nodes, found_pairs, substitute_pair, input_list,
                   sum_output, Sum_node, onnx_model1, printed>>
    /\ UNCHANGED mlpVars
    /\ UNCHANGED tclVars

\* onnx_model1 = qonnx_make_model(graph): a copy of graph
MakeModel1 ==
    /\ notebook = "basics" /\ pc = "make_model1"
    /\ onnx_model1' = graph
    /\ exc' = "none"
    /\ pc' = "run_model1"
    /\ UNCHANGED <<notebook, graph, onnx_model, input_dict, output, ref_output,
                   add_nodes, found_pairs, substitute_pair, input_list,
                   sum_output, Sum_node, runs22, printed>>
    /\ UNCHANGED mlpVars
    /\ UNCHANGED tclVars

\* output = sess.run(None, input_dict) on onnx_model1
RunModel1 ==
    /\ notebook = "basics" /\ pc = "run_model1"
    /\ LET r == Execute(onnx_model1, input_dict)
       IN  IF r.ok THEN output' = r.out /\ exc' = "none"
           ELSE output' = output /\ exc' = "RuntimeError"
    /\ pc' = "compare1"
    /\ UNCHANGED <<notebook, graph, onnx_model, input_dict, ref_output,
                   add_nodes, found_pairs, substitute_pair, input_list,
                   sum_output, Sum_node, onnx_model1, runs22, printed>>
    /\ UNCHANGED mlpVars
    /\ UNCHANGED tclVars

\* the comparison cell of the manipulated model (ref_output is not recomputed)
Compare1 ==
    /\ notebook = "basics" /\ pc = "compare1"
    /\ IF output = <<>> \/ ref_output = <<>>
       THEN printed' = printed /\ exc' = "NameError"
       ELSE IF output[1] = ref_output[1]
            THEN printed' = "The results are the same!" /\ exc' = "none"
            ELSE printed' = printed /\ exc' = "Exception"
    /\ pc' = "end"
    /\ UNCHANGED <<notebook, graph, onnx_model, input_dict, output, ref_output,
                   add_nodes, found_pairs, substitute_pair, input_list,
                   sum_output, Sum_node, onnx_model1, runs22>>
    /\ UNCHANGED mlpVars
    /\ UNCHANGED tclVars

-----------------------------------------------------------------------------
(* Cells of the MLP notebook *)

\* both models end in a bipolar output of shape (1, 1)
Bipolar == {-1, 1}

\* variant: nok is incremented in every iteration
NokIncrement_Always(finn_output, brevitas_output) == 1

\* ok += 1 if finn_output == brevitas_output else 0
OkIncrement(finn_output, brevitas_output) ==
    IF finn_output = brevitas_output THEN 1 ELSE 0

\* nok += 1 if finn_output != brevitas_output else 0
NokIncrement(finn_output, brevitas_output) ==
    IF finn_output # brevitas_output THEN 1 ELSE 0

\* one transform call of the tidy-up cell
TidyPass ==
    /\ notebook = "mlp" /\ pc = "tidy"
    /\ ~TidyFinished(tidy_log)
    /\ LET pass == TidyPasses[Len(tidy_log) + 1]
       IN  \E changed \in BOOLEAN :
              /\ model_for_sim' = transform(model_for_sim, pass, changed)
              /\ tidy_log' = Append(tidy_log, <<pass, changed>>)
    /\ UNCHANGED <<notebook, pc, exc, ok, nok, loop_i, cmp_log, verdict,
                   verif_model_file, finn_input_dict, input_tensor_i,
                   finn_input_data>>
    /\ UNCHANGED basicsVars
    /\ UNCHANGED tclVars

\* model_for_sim.save(verif_model_filename), the last line of the cell
SaveModel ==
    /\ notebook = "mlp" /\ pc = "tidy"
    /\ TidyFinished(tidy_log)
    /\ verif_model_file' = model_for_sim
    /\ pc' = "verify_loop"
    /\ UNCHANGED <<notebook, exc, ok, nok, loop_i, cmp_log, verdict,
                   model_for_sim, tidy_log, finn_input_dict, input_tensor_i,
                   finn_input_data>>
    /\ UNCHANGED basicsVars
    /\ UNCHANGED tclVars

\* one iteration of: for i in verify_range; an exception ends the loop
VerifyStep ==
    /\ notebook = "mlp" /\ pc = "verify_loop"
    /\ loop_i < n_verification_inputs
    /\ \E result \in Bipolar, brevitas_output \in Bipolar :
          LET r == inference_with_finn_onnx(model_for_sim, CurrentInpShape,
                                            result)
              finn_output == r.finn_output
          IN  /\ model_for_sim' = r.model
              /\ finn_input_dict' = r.input_dict
              /\ IF r.exc # "none"
                 THEN /\ exc' = r.exc
                      /\ pc' = "assert"
                      /\ UNCHANGED <<ok, nok, cmp_log, loop_i>>
                 ELSE /\ ok' = ok + OkIncrement(finn_output, brevitas_output)
                      /\ nok' = nok + NokIncrement(finn_output, brevitas_output)
                      /\ cmp_log' =
                            Append(cmp_log, <<finn_output, brevitas_output>>)
                      /\ loop_i' = loop_i + 1
                      /\ pc' = IF loop_i' = n_verification_inputs
                               THEN "assert" ELSE pc
                      /\ exc' = exc
    /\ UNCHANGED <<notebook, verdict, verif_model_file, tidy_log,
                   input_tensor_i, finn_input_data>>
    /\ UNCHANGED basicsVars
    /\ UNCHANGED tclVars

\* try: assert ok == n_verification_inputs; print("Verification succeeded...")
\* except AssertionError: assert False, "Verification failed..."
\* variant: one matching input is enough
AssertOutcome_AnyOk(cnt) ==
    IF cnt >= 1
    THEN [verdict |-> "Verification succeeded", exc |-> "none"]
    ELSE [verdict |-> "none", exc |-> "AssertionError"]

AssertOutcome(cnt) ==
    IF cnt = n_verification_inputs
    THEN [verdict |-> "Verification succeeded", exc |-> "none"]
    ELSE [verdict |-> "none", exc |-> "AssertionError"]

AssertCell ==
    /\ notebook = "mlp" /\ pc = "assert"
    /\ verdict' = AssertOutcome(ok).verdict
    /\ exc' = AssertOutcome(ok).exc
    /\ pc' = "end"
    /\ UNCHANGED <<notebook, ok, nok, loop_i, cmp_log, model_for_sim,
                   verif_model_file, tidy_log, finn_input_dict, input_tensor_i,
                   finn_input_data>>
    /\ UNCHANGED basicsVars
    /\ UNCHANGED tclVars

-----------------------------------------------------------------------------
(* The input preparation, on its own *)

\* np.pad, 2*current_inp-1 and reshape of inference_with_finn_onnx
PreprocessInput ==
    /\ notebook = "preprocess" /\ pc = "preprocess"
    /\ LET r == reshape(pad(CurrentInpShape, PadWidth), model_for_sim.in_shape)
       IN  /\ exc' = r.exc
           /\ finn_input_data' =
                 IF r.exc = "none" THEN preprocess(input_tensor_i) ELSE <<>>
           /\ finn_input_dict' =
                 IF r.exc = "none"
                 THEN [t \in {model_for_sim.in_name} |-> r.shape] ELSE <<>>
    /\ pc' = "end"
    /\ UNCHANGED <<notebook, ok, nok, loop_i, cmp_log, verdict, model_for_sim,
                   verif_model_file, tidy_log, input_tensor_i>>
    /\ UNCHANGED basicsVars
    /\ UNCHANGED tclVars

-----------------------------------------------------------------------------
(* The Tcl script *)

\* the next block-design command of the script
StitchCommand ==
    /\ notebook = "stitch" /\ pc = "stitch"
    /\ bd_pc <= Len(StitchScript)
    /\ bd' = ExecCommand(bd, StitchScript[bd_pc])
    /\ bd_pc' = bd_pc + 1
    /\ pc' = IF bd_pc' > Len(StitchScript) THEN "end" ELSE pc
    /\ UNCHANGED <<notebook, exc, ifile, rd, at_eof, ofile, buf, kill>>
    /\ UNCHANGED basicsVars
    /\ UNCHANGED mlpVars

\* one iteration of: while { [eof $ifile] != 1 }
FilterStep ==
    /\ notebook = "filter" /\ pc = "filter"
    /\ ~at_eof
    /\ LET g == gets(ifile, rd)
           st == FilterLine(g.line, [ofile |-> ofile, buf |-> buf, kill |-> kill])
       IN  /\ rd' = g.rd
           /\ at_eof' = g.eof
           /\ ofile' = st.ofile
           /\ buf' = st.buf
           /\ kill' = st.kill
    /\ UNCHANGED <<notebook, pc, exc, ifile, bd_pc, bd>>
    /\ UNCHANGED basicsVars
    /\ UNCHANGED mlpVars

\* close $ifile; close $ofile
FilterClose ==
    /\ notebook = "filter" /\ pc = "filter"
    /\ at_eof
    /\ pc' = "end"
    /\ UNCHANGED <<notebook, exc>>
    /\ UNCHANGED tclVars
    /\ UNCHANGED basicsVars
    /\ UNCHANGED mlpVars

Next ==
    \/ PreprocessInput
    \/ StitchCommand
    \/ FilterStep
    \/ FilterClose
    \/ TidyPass
    \/ SaveModel
    \/ VerifyStep
    \/ AssertCell
    \/ RunModel
    \/ Compare
    \/ IdentifyAdders
    \/ ScanCell
    \/ InputListCell
    \/ SumOutputCell
    \/ SumNodeCell
    \/ InsertRemove
    \/ MakeModel1
    \/ RunModel1
    \/ Compare1

Spec == Init /\ [][Next]_vars

-----------------------------------------------------------------------------
(* Properties *)

NodesOf(g) == SeqToSet(g.node)

\* the rewrite has been applied once to a graph in which a pair was found
RewrittenOnce ==
    notebook = "basics" /\ runs22 = 1 /\ substitute_pair # <<>>

\* s reads an output of n
Consumes(s, n) == SeqToSet(n.output) \cap SeqToSet(s.input) # {}

\* position of node n in the sequence nodes (0 if absent)
Position(nodes, n) ==
    IF n \in SeqToSet(nodes) THEN CHOOSE i \in 1..Len(nodes) : nodes[i] = n
    ELSE 0

(* C1: for every graph with an Add node followed by an Add node and every   *)
(* assignment of the graph inputs, executing the graph after the adder-     *)
(* pair-to-Sum rewrite gives the outputs of executing it before the rewrite.*)
C1_RewritePreservesOutputs ==
    RewrittenOnce =>
        \A f \in AllFeeds : Execute(graph, f) = Execute(onnx_model, f)

(* C2: on the tutorial graph the rewrite produces exactly one Sum node with *)
(* inputs in1, in2, in3 and output sum2, and the node sequence becomes      *)
(* [Sum, Abs, Add3, Round]: four nodes instead of five.                     *)
C2_TutorialRewrite ==
    (RewrittenOnce /\ onnx_model = TutorialGraph) =>
        /\ input_list = <<"in1", "in2", "in3">>
        /\ Sum_node = make_node("Sum", <<"in1", "in2", "in3">>, <<"sum2">>, "Sum")
        /\ graph.node = <<Sum_node, Abs_node, Add3_node, Round_node>>
        /\ Len(onnx_model.node) = 5 /\ Len(graph.node) = 4
        /\ Cardinality({i \in 1..Len(graph.node) :
                           graph.node[i].op_type = "Sum"}) = 1

C2_Witness ==
    RewrittenOnce /\ onnx_model = TutorialGraph /\ pc = "make_model1"

AddersIdentified ==
    notebook = "basics" /\ pc \notin {"run_model", "compare", "identify"}

(* C3: identify_adder_nodes returns exactly the nodes whose op_type is Add, *)
(* each once and in graph order, and no other node; on the tutorial graph   *)
(* the result is [Add1, Add2, Add3].                                        *)
C3_IdentifyAdders ==
    AddersIdentified =>
        /\ \A i \in 1..Len(add_nodes) :
              add_nodes[i].op_type = "Add" /\ add_nodes[i] \in NodesOf(finn_model)
        /\ \A n \in NodesOf(finn_model) :
              n.op_type = "Add" =>
                  Cardinality({i \in 1..Len(add_nodes) : add_nodes[i] = n}) = 1
        /\ \A i, j \in 1..Len(add_nodes) :
              i < j => Position(finn_model.node, add_nodes[i])
                           < Position(finn_model.node, add_nodes[j])
        /\ finn_model = TutorialGraph =>
              add_nodes = <<Add1_node, Add2_node, Add3_node>>

C3_Witness ==
    /\ AddersIdentified /\ pc = "scan"
    /\ Len(add_nodes) = 2 /\ Len(finn_model.node) = 3

PairsScanned ==
    notebook = "basics"
    /\ pc \notin {"run_model", "compare", "identify", "scan"}

(* C4: pair detection matches only adjacent adders: adder_pair(model, n)    *)
(* returns a pair [n, s] exactly for the direct successors s of n whose     *)
(* op_type is Add; the scan of the tutorial graph finds exactly one pair,   *)
(* (Add1, Add2), and no pair containing Add3.                               *)
C4_OnlyAdjacentAdders ==
    PairsScanned =>
        /\ \A n \in NodesOf(finn_model) :
              LET ps == adder_pair(finn_model, n)
              IN  /\ \A i \in 1..Len(ps) :
                        /\ Len(ps[i]) = 2 /\ ps[i][1] = n
                        /\ ps[i][2] \in NodesOf(finn_model)
                        /\ ps[i][2].op_type = "Add"
                        /\ Consumes(ps[i][2], n)
                  /\ \A s \in NodesOf(finn_model) :
                        (s.op_type = "Add" /\ Consumes(s, n)) =>
                            \E i \in 1..Len(ps) : ps[i][2] = s
        /\ SeqToSet(found_pairs) =
              {p \in NodesOf(finn_model) \X NodesOf(finn_model) :
                  /\ p[1].op_type = "Add" /\ p[2].op_type = "Add"
                  /\ Consumes(p[2], p[1])}
        /\ finn_model = TutorialGraph =>
              /\ found_pairs = << <<Add1_node, Add2_node>> >>
              /\ substitute_pair = <<Add1_node, Add2_node>>

C4_Witness ==
    /\ PairsScanned /\ pc = "input_list"
    /\ finn_model = TutorialGraph
    /\ Len(found_pairs) = 1

IsOther(n) ==
    substitute_pair = <<>> \/ (n # substitute_pair[1] /\ n # substitute_pair[2])

(* C5: the rewrite changes nothing but the two matched nodes: every other   *)
(* node keeps its op type, inputs, outputs and name, and the other nodes    *)
(* keep their relative order in the node sequence.                          *)
C5_OtherNodesUntouched ==
    (notebook = "basics" /\ runs22 >= 1) =>
        SelectSeq(graph.node, LAMBDA n : IsOther(n) /\ n # Sum_node)
            = SelectSeq(onnx_model.node, IsOther)

C5_Witness ==
    /\ RewrittenOnce /\ Len(onnx_model.node) = 3 /\ Len(graph.node) = 2
    /\ graph.node[2] = onnx_model.node[2]

(* C6: for every assignment of in1, in2, in3 the five-node model yields     *)
(* out1 = round(|in1+in2+in3| + |in1+in2+in3|), the value of the reference  *)
(* function; a mismatch raises an exception instead of reporting success.   *)
C6_ModelMatchesReference ==
    (notebook = "basics" /\ pc = "identify") =>
        /\ onnx_model = TutorialGraph =>
              /\ output = <<Round(2 * Abs(input_dict["in1"] + input_dict["in2"]
                                          + input_dict["in3"]))>>
              /\ output = ref_output
              /\ printed = "The results are the same!" /\ exc = "none"
        /\ output # ref_output =>
              exc = "Exception" /\ printed # "The results are the same!"
        /\ output = ref_output =>
              exc = "none" /\ printed = "The results are the same!"

\* 2 * |1/4| = 1/2 is a tie and rounds to the even integer 0
C6_Witness ==
    /\ notebook = "basics" /\ pc = "identify" /\ onnx_model = TutorialGraph
    /\ input_dict["in1"] + input_dict["in2"] + input_dict["in3"] = -1
    /\ output = <<0>> /\ printed = "The results are the same!"

(* C7: the MLP verification reports success if and only if the FINN-ONNX    *)
(* output equalled the Brevitas output for every one of the                 *)
(* n_verification_inputs inputs (ok = n_verification_inputs, nok = 0); with *)
(* any mismatch the final cell ends in a failing assertion and the success  *)
(* message is not printed.                                                  *)
C7_VerificationVerdict ==
    (notebook = "mlp" /\ pc = "end") =>
        LET allEqual == \A i \in 1..Len(cmp_log) : cmp_log[i][1] = cmp_log[i][2]
        IN  /\ Len(cmp_log) = n_verification_inputs
            /\ (verdict = "Verification succeeded") <=> allEqual
            /\ allEqual <=> (ok = n_verification_inputs /\ nok = 0)
            /\ ~allEqual => (exc = "AssertionError" /\ verdict = "none")
            /\ allEqual => exc = "none"

C7_Witness ==
    /\ notebook = "mlp" /\ pc = "end"
    /\ ok = n_verification_inputs - 1 /\ nok = 1
    /\ exc = "AssertionError" /\ verdict = "none"

\* every input of every node is a graph input or the output of an earlier node
TopologicallyOrdered(g) ==
    \A i \in 1..Len(g.node) :
        \A t \in SeqToSet(g.node[i].input) :
            \/ t \in SeqToSet(g.input)
            \/ \E j \in 1..(i - 1) : t \in SeqToSet(g.node[j].output)

(* C8: after the adder-pair rewrite on a topologically ordered graph the    *)
(* node sequence is still topologically ordered: every input of every node, *)
(* the inserted Sum node included, is a graph input or the output of a node *)
(* that appears earlier.                                                    *)
C8_RewriteKeepsTopologicalOrder ==
    (RewrittenOnce /\ TopologicallyOrdered(onnx_model)) =>
        TopologicallyOrdered(graph)

(* C9: in every state reachable by any number of executions of the rewrite  *)
(* step, each tensor name is the output of at most one node of the graph.   *)
C9_SingleProducer ==
    notebook = "basics" =>
        \A i, j \in 1..Len(graph.node) :
            i # j => SeqToSet(graph.node[i].output)
                         \cap SeqToSet(graph.node[j].output) = {}

-----------------------------------------------------------------------------
(* The tidy-up cell and the execution of the MLP model *)

\* the tidy-up cell has run to its end
TidyDone == notebook = "mlp" /\ pc # "tidy"

CandidateDicts ==
    {<<>>} \cup
    UNION {[{nm} -> {model_for_sim.in_shape, CurrentInpShape, <<600>>}] :
              nm \in {model_for_sim.in_name, "global_out"}}

-----------------------------------------------------------------------------
(* Graph queries and the selection of the pair *)

(* C16: for every node n that has exactly one direct predecessor p and      *)
(* exactly one direct successor, find_direct_successors applied to p (the   *)
(* result of find_direct_predecessors(n)) returns a sequence that contains  *)
(* n; checked on the wrapped model and on the graph being rewritten.        *)
C16_SuccessorOfPredecessor ==
    notebook = "basics" =>
        \A g \in {finn_model, graph} : \A n \in NodesOf(g) :
            LET preds == find_direct_predecessors(g, n)
                succs == find_direct_successors(g, n)
            IN  (Len(preds) = 1 /\ Len(succs) = 1) =>
                    n \in SeqToSet(find_direct_successors(g, preds[1]))

C16_Witness ==
    /\ PairsScanned /\ finn_model = TutorialGraph
    /\ find_direct_predecessors(finn_model, Abs_node) = <<Add2_node>>
    /\ find_direct_successors(finn_model, Abs_node) = <<Add3_node>>
    /\ Abs_node \in SeqToSet(find_direct_successors(finn_model, Add2_node))

(* C17: the adder-pair rewrite is applied only when its precondition holds: *)
(* the connecting tensor (the first matched node's output) is consumed by   *)
(* the second matched node and by no third consumer, and is not a graph     *)
(* output.                                                                  *)
C17_FusedOnlyWhenPreconditionHolds ==
    RewrittenOnce =>
        LET connecting == substitute_pair[1].output[1]
        IN  /\ find_consumers(finn_model, connecting) = <<substitute_pair[2]>>
            /\ connecting \notin SeqToSet(finn_model.output)

\* the adjacent Add-Add pairs of the wrapped model
AdderPairs ==
    {q \in NodesOf(finn_model) \X NodesOf(finn_model) :
        /\ q[1].op_type = "Add" /\ q[2].op_type = "Add"
        /\ Consumes(q[2], q[1])}

\* pair q is found before pair r: nodes in ascending graph order, and for one
\* node its successors in graph order (every node has a single output)
FoundBefore(q, r) ==
    \/ Position(finn_model.node, q[1]) < Position(finn_model.node, r[1])
    \/ /\ q[1] = r[1]
       /\ Position(finn_model.node, q[2]) < Position(finn_model.node, r[2])

(* C18 as stated: when several adder pairs are eligible, substitute_pair is *)
(* the first match of the scan in ascending graph order.                    *)
C18_FirstMatchSelected ==
    (PairsScanned /\ AdderPairs # {}) =>
        /\ substitute_pair \in AdderPairs
        /\ \A q \in AdderPairs : ~FoundBefore(q, substitute_pair)

(* C18, amended: when several adder pairs are eligible, substitute_pair is  *)
(* the last match of the scan in ascending graph order (the loop assigns    *)
(* every match in turn), and one run of the rewrite replaces exactly that   *)
(* one pair by one node.                                                    *)
C18_LastMatchSelected ==
    (PairsScanned /\ AdderPairs # {}) =>
        /\ substitute_pair \in AdderPairs
        /\ \A q \in AdderPairs : ~FoundBefore(substitute_pair, q)
        /\ RewrittenOnce =>
              /\ Len(graph.node) = Len(finn_model.node) - 1
              /\ NodesOf(finn_model) \ NodesOf(graph)
                    = {substitute_pair[1], substitute_pair[2]}
              /\ NodesOf(graph) \ NodesOf(finn_model) = {Sum_node}

C18_Witness ==
    /\ RewrittenOnce
    /\ Cardinality(AdderPairs) >= 2
    /\ \E q \in AdderPairs : FoundBefore(q, substitute_pair)

-----------------------------------------------------------------------------
(* The input list of the fused node *)

\* the input list has been built from a pair
InputListBuilt ==
    /\ notebook = "basics"
    /\ pc \notin {"run_model", "compare", "identify", "scan", "input_list"}
    /\ substitute_pair # <<>>

\* the positions of s whose entry is not x
Kept(s, x) == {j \in 1..Len(s) : s[j] # x}

\* the i-th position of s, in port order, whose entry is not x
NthKept(s, x, i) ==
    CHOOSE j \in Kept(s, x) : Cardinality({k \in Kept(s, x) : k <= j}) = i

(* C19: the fused node's input list is the inputs of the first matched node *)
(* in port order without the entries equal to the second node's first       *)
(* output, followed by the inputs of the second matched node in port order  *)
(* without the entries equal to the first node's first output; every other  *)
(* entry is kept with its multiplicity.                                     *)
C19_InputListConstruction ==
    InputListBuilt =>
        LET a == substitute_pair[1].input
            b == substitute_pair[2].input
            xa == substitute_pair[2].output[1]
            xb == substitute_pair[1].output[1]
            ka == Cardinality(Kept(a, xa))
            kb == Cardinality(Kept(b, xb))
        IN  /\ Len(input_list) = ka + kb
            /\ \A i \in 1..ka : input_list[i] = a[NthKept(a, xa, i)]
            /\ \A i \in 1..kb : input_list[ka + i] = b[NthKept(b, xb, i)]

C19_Witness ==
    /\ InputListBuilt /\ pc = "sum_output"
    /\ Len(substitute_pair[1].input) + Len(substitute_pair[2].input)
          = Len(input_list) + 1
    /\ input_list[1] = input_list[2]
    /\ input_list[3] # input_list[1]

(* C20 as stated: the set of inputs of the fused node equals the symmetric  *)
(* difference of the two matched nodes' input sets with the inner           *)
(* connecting tensor removed.                                               *)
C20_SymmetricDifference ==
    InputListBuilt =>
        LET a == SeqToSet(substitute_pair[1].input)
            b == SeqToSet(substitute_pair[2].input)
        IN  SeqToSet(input_list) =
                ((a \cup b) \ (a \cap b)) \ {substitute_pair[1].output[1]}

(* C20, amended: the set of inputs of the fused node equals the union of    *)
(* the two matched nodes' input sets with the inner connecting tensor       *)
(* removed; an input read by both nodes stays in the set.                   *)
C20_UnionWithoutConnecting ==
    InputListBuilt =>
        LET a == SeqToSet(substitute_pair[1].input)
            b == SeqToSet(substitute_pair[2].input)
        IN  SeqToSet(input_list) =
                (a \cup b) \ {substitute_pair[1].output[1]}

C20_Witness ==
    /\ InputListBuilt
    /\ SeqToSet(substitute_pair[1].input)
          \cap SeqToSet(substitute_pair[2].input) # {}
    /\ SeqToSet(substitute_pair[1].input)
          \cap SeqToSet(substitute_pair[2].input) \subseteq SeqToSet(input_list)

-----------------------------------------------------------------------------
(* The Sum node and the insert/remove cell *)

(* C21: for every matched pair the fused Sum node has exactly one output,   *)
(* the second matched node's first output tensor, so every node that        *)
(* consumed that tensor before the rewrite still finds a producer for it    *)
(* after the rewrite.                                                       *)
C21_SumKeepsOutputTensor ==
    (notebook = "basics" /\ Sum_node # NoNode) =>
        /\ Sum_node.output = <<substitute_pair[2].output[1]>>
        /\ RewrittenOnce =>
              \A c \in SeqToSet(find_consumers(finn_model,
                                               substitute_pair[2].output[1])) :
                  c \in NodesOf(graph) =>
                      /\ find_producer(graph, substitute_pair[2].output[1])
                            = <<Sum_node>>
                      /\ Consumes(c, Sum_node)

C21_Witness ==
    /\ RewrittenOnce
    /\ \E c \in NodesOf(graph) :
          /\ c \in NodesOf(finn_model)
          /\ substitute_pair[2].output[1] \in SeqToSet(c.input)
    /\ find_producer(graph, Sum_node.output[1]) = <<Sum_node>>

(* C22: the rewrite leaves the tensor registry untouched: the designated    *)
(* inputs, the designated outputs and the value_info entries of the graph   *)
(* (the entry of the now-dead connecting tensor sum1 included) are the same *)
(* after the insert/remove cell as before it.                               *)
C22_RegistryUntouched ==
    (notebook = "basics" /\ runs22 >= 1) =>
        /\ graph.input = onnx_model.input
        /\ graph.output = onnx_model.output
        /\ graph.value_info = onnx_model.value_info
        /\ (RewrittenOnce /\ onnx_model = TutorialGraph) =>
              /\ "sum1" \in SeqToSet(graph.value_info)
              /\ find_producer(graph, "sum1") = <<>>

C22_Witness ==
    /\ RewrittenOnce /\ onnx_model = TutorialGraph
    /\ graph.node # onnx_model.node
    /\ graph.value_info = <<"sum1", "sum2", "abs1", "sum3">>

(* C23: for every node of the graph get_node_id(model)[node.name] is the    *)
(* node's 0-based position in the node sequence, so the Sum node is         *)
(* inserted at the position of the first matched node.                      *)
C23_NodeIdIsPosition ==
    notebook = "basics" =>
        /\ \A i \in 1..Len(finn_model.node) :
              get_node_id(finn_model)[finn_model.node[i].name] = i - 1
        /\ RewrittenOnce =>
              LET first == Position(finn_model.node, substitute_pair[1])
              IN  /\ get_node_id(finn_model)[substitute_pair[1].name]
                        = first - 1
                  /\ graph.node[first] = Sum_node
                  /\ SubSeq(graph.node, 1, first - 1)
                        = SubSeq(finn_model.node, 1, first - 1)

C23_Witness ==
    /\ RewrittenOnce
    /\ Position(finn_model.node, substitute_pair[1]) = 2
    /\ graph.node[2] = Sum_node

\* the number of Sum nodes in the graph being rewritten
SumCount == Cardinality({i \in 1..Len(graph.node) :
                            graph.node[i].op_type = "Sum"})

(* C27: the insert-and-remove step is all-or-nothing: whenever it ends,     *)
(* normally or with an error, the graph either still contains both matched  *)
(* Add nodes and no Sum node, or contains exactly one Sum node and neither  *)
(* matched Add node.                                                        *)
C27_InsertRemoveAllOrNothing ==
    (notebook = "basics" /\ substitute_pair # <<>>) =>
        \/ /\ substitute_pair[1] \in NodesOf(graph)
           /\ substitute_pair[2] \in NodesOf(graph)
           /\ SumCount = 0
        \/ /\ substitute_pair[1] \notin NodesOf(graph)
           /\ substitute_pair[2] \notin NodesOf(graph)
           /\ SumCount = 1

-----------------------------------------------------------------------------
(* Preprocessing, pipeline order and the counters of the loop *)

(* C24: for every input vector with 593 elements in {0, 1} the vector       *)
(* passed to FINN execution has exactly 600 elements, all in {-1, +1}:      *)
(* element i < 593 equals 2*x_i - 1 and each of the 7 padding elements      *)
(* equals -1.                                                               *)
C24_PaddedBipolarInput ==
    (notebook = "preprocess" /\ pc = "end") =>
        /\ Len(input_tensor_i) = 593
        /\ \A i \in 1..593 : input_tensor_i[i] \in {0, 1}
        /\ Len(finn_input_data) = 600
        /\ Len(finn_input_data) = Size(finn_input_dict[model_for_sim.in_name])
        /\ \A i \in 1..600 : finn_input_data[i] \in {-1, 1}
        /\ \A i \in 1..593 : finn_input_data[i] = 2 * input_tensor_i[i] - 1
        /\ \A i \in 594..600 : finn_input_data[i] = -1

C24_Witness ==
    /\ notebook = "preprocess" /\ pc = "end"
    /\ input_tensor_i[593] = 1 /\ input_tensor_i[592] = 0
    /\ finn_input_data[593] = 1 /\ finn_input_data[592] = -1
    /\ finn_input_data[600] = -1

(* C25: the verification pipeline runs strictly in sequence: the model is   *)
(* loaded, then the six tidy-up passes are applied one at a time in the     *)
(* order InferShapes, FoldConstants, GiveUniqueNodeNames,                   *)
(* GiveReadableTensorNames, InferDataTypes, RemoveStaticGraphInputs, then   *)
(* the model is saved, and only afterwards is it executed.                  *)
C25_PipelineInSequence ==
    notebook = "mlp" =>
        LET order == <<"InferShapes", "FoldConstants", "GiveUniqueNodeNames",
                       "GiveReadableTensorNames", "InferDataTypes",
                       "RemoveStaticGraphInputs">>
            applied == [i \in 1..Len(tidy_log) |-> tidy_log[i][1]]
            saved == verif_model_file # NoModel
            executed == loop_i >= 1 \/ DOMAIN finn_input_dict # {}
        IN  /\ model_for_sim # NoModel
            /\ Len(applied) <= 6 /\ applied = SubSeq(order, 1, Len(applied))
            /\ saved => applied = order
            /\ executed => saved
            /\ ~saved => (pc = "tidy" /\ ~executed)

C25_Witness ==
    /\ notebook = "mlp" /\ loop_i = 1 /\ pc = "verify_loop"
    /\ verif_model_file # NoModel
    /\ Len(tidy_log) = 6 /\ tidy_log[5][1] = "InferDataTypes"

(* C28: in the verification loop ok + nok = k after k inputs: every         *)
(* iteration increments exactly one of ok and nok by one, the inputs are    *)
(* processed once each in ascending order, and the loop ends after exactly  *)
(* n_verification_inputs iterations.                                        *)
C28_CountersSumToIterations ==
    notebook = "mlp" =>
        /\ ok + nok = loop_i
        /\ Len(cmp_log) = loop_i
        /\ ok = Cardinality({i \in 1..Len(cmp_log) :
                                cmp_log[i][1] = cmp_log[i][2]})
        /\ nok = Cardinality({i \in 1..Len(cmp_log) :
                                 cmp_log[i][1] # cmp_log[i][2]})
        /\ loop_i <= n_verification_inputs
        /\ pc \in {"assert", "end"} => loop_i = n_verification_inputs
        /\ pc = "verify_loop" => loop_i < n_verification_inputs

C28_Witness ==
    /\ notebook = "mlp" /\ pc = "assert"
    /\ loop_i = n_verification_inputs
    /\ ok >= 1 /\ nok >= 1

-----------------------------------------------------------------------------
(* The stitched block design *)

\* the cells whose in0_V is driven by out_V of cell c
Sinks(c) == {n[3] : n \in {m \in bd.intf_nets :
                              m[1] = c /\ m[2] = "out_V" /\ m[4] = "in0_V"}}

\* what drives pin in0_V of cell c: interface pins and external ports
Drivers(c) ==
    {<<n[1], n[2]>> : n \in {m \in bd.intf_nets : m[3] = c /\ m[4] = "in0_V"}}
    \cup {<<"", n[1]>> : n \in {m \in bd.ext_intf_nets :
                                   m[2] = c /\ m[3] = "in0_V"}}

\* what pin out_V of cell c drives
Loads(c) ==
    {<<n[3], n[4]>> : n \in {m \in bd.intf_nets : m[1] = c /\ m[2] = "out_V"}}
    \cup {<<"", n[1]>> : n \in {m \in bd.ext_intf_nets :
                                   m[2] = c /\ m[3] = "out_V"}}

RECURSIVE Walk(_, _)
\* the cells met from cell c on by following out_V -> in0_V, at most k cells
Walk(c, k) ==
    IF k = 0 THEN <<>>
    ELSE IF Sinks(c) = {} THEN <<c>>
    ELSE <<c>> \o Walk(CHOOSE d \in Sinks(c) : TRUE, k - 1)

(* C26: in the stitched design the streaming data path is one linear chain  *)
(* from the external input s_axis_0 to the external output m_axis_0: each   *)
(* of the 13 blocks has its in0_V driven by exactly one source and its      *)
(* out_V driving exactly one sink, there is no cycle, and ap_clk and        *)
(* ap_rst_n of every block are connected to the single external clock and   *)
(* reset.                                                                   *)
C26_LinearStreamingChain ==
    (notebook = "stitch" /\ pc = "end") =>
        LET first == CHOOSE c \in bd.cells : <<"", "s_axis_0">> \in Drivers(c)
            chain == Walk(first, Cardinality(bd.cells) + 1)
        IN  /\ Cardinality(bd.cells) = 13
            /\ \A c \in bd.cells :
                  /\ Cardinality(Drivers(c)) = 1
                  /\ Cardinality(Loads(c)) = 1
                  /\ <<"ap_clk", c, "ap_clk">> \in bd.nets
                  /\ <<"ap_rst_n", c, "ap_rst_n">> \in bd.nets
            /\ bd.ports = {"ap_clk", "ap_rst_n"}
            /\ bd.intf_ports = {"s_axis_0", "m_axis_0"}
            /\ \E c \in bd.cells : <<"", "s_axis_0">> \in Drivers(c)
            /\ Len(chain) = 13
            /\ SeqToSet(chain) = bd.cells
            /\ Loads(chain[13]) = {<<"", "m_axis_0">>}
            /\ \A n \in bd.intf_nets : n[1] \in bd.cells /\ n[3] \in bd.cells

C26_Witness ==
    /\ notebook = "stitch" /\ pc = "end"
    /\ Walk("StreamingFIFO_rtl_0", 13)[13] = "StreamingFIFO_rtl_6"
    /\ Walk("StreamingFIFO_rtl_0", 13)[2] = "MVAU_hls_0"
    /\ Cardinality(bd.intf_nets) = 12

-----------------------------------------------------------------------------
(* The stale-reference filter *)

\* line i opens a block; line i closes one
Opener(i) == fileSetOpen \in ifile.lines[i].text
Closer(i) == fileSetClose \in ifile.lines[i].text /\ ~Opener(i)

\* every opener is followed by a closer before the next opener and before
\* the end of the file
WellFormed ==
    \A j \in 1..Len(ifile.lines) :
        Opener(j) =>
            \E c \in (j + 1)..Len(ifile.lines) :
                Closer(c) /\ \A k \in (j + 1)..(c - 1) : ~Opener(k)

\* the opener of the block line i lies in, 0 if it lies outside every block
BlockOf(i) ==
    LET starts == {j \in 1..i : /\ Opener(j)
                                /\ \A k \in (j + 1)..(i - 1) : ~Closer(k)}
    IN  IF starts = {} THEN 0
        ELSE CHOOSE j \in starts : \A h \in starts : h <= j

\* the closer of the block opened at line j
EndOf(j) ==
    CHOOSE c \in (j + 1)..Len(ifile.lines) :
        Closer(c) /\ \A k \in (j + 1)..(c - 1) : ~Closer(k)

\* the block opened at line j has a subCoreRef line between opener and closer
HasSubCoreRef(j) ==
    \E k \in (j + 1)..(EndOf(j) - 1) : subCoreRef \in ifile.lines[k].text

(* C29: for a component file whose fileSet blocks are well formed the       *)
(* filter writes, in the original order, exactly the lines outside blocks   *)
(* plus all lines of every block that has no subCoreRef line between its    *)
(* opener and closer; a block that has one is omitted completely.           *)
C29_FilterOutput ==
    (notebook = "filter" /\ pc = "end" /\ WellFormed) =>
        ofile = SelectSeq(ifile.lines,
                          LAMBDA l : \/ BlockOf(l.no) = 0
                                     \/ ~HasSubCoreRef(BlockOf(l.no)))

(* C30: for every sequence of input lines the kill flag is 0 whenever a     *)
(* line containing the fileSet opener starts a new buffered block, so a     *)
(* subCoreRef seen in one block never causes a different block to be        *)
(* dropped.                                                                 *)
C30_KillClearAtBlockStart ==
    (notebook = "filter" /\ Len(buf) = 1) => kill = 0

====
